---------------------------- MODULE Spec2Model ----------------------------
(***************************************************************************)
(* A model of importtools: the ordered merge chunkers (chunked_loader and  *)
(* ChunkedLoader.loader), the in-memory and diff-tracking datasets, and    *)
(* the FullSync / AdditiveSync import strategies.                          *)
(*                                                                         *)
(* Each subsystem has its own specification (SpecChunk, SpecCL, SpecDiff,  *)
(* SpecSync); the variables of the other subsystems stay as Init set them. *)
(***************************************************************************)
EXTENDS Integers, Sequences, FiniteSets, TLC

VARIABLES
    \* ---- chunked_loader (src/importtools/__init__.py)
    ordered_iter1,   \* first ordered input, a sequence of integers
    ordered_iter2,   \* second ordered input
    chunk_hint,      \* the chunk_hint argument
    iterator,        \* what is left of heapq.merge(i1, i2), a pushed back element first
    element,         \* the loop variable `element`: <<>> while unbound, else <<value>>
    pulled,          \* the (value, from_iter1) pairs taken during the last loop iteration
    yielded,         \* the (i1_elemens, i2_elemens) pairs yielded so far
    gen,             \* "running" | "done": the generator's state
    \* ---- ChunkedLoader.loader (src/importtools/sync.py)
    source_loader,       \* first ordered input
    destination_loader,  \* second ordered input
    cl_chunk_hint,       \* self.chunk_hint
    merged,              \* what is left of heapq.merge(w_source, w_destination)
    batches,             \* the (source, destination) pairs yielded so far
    cl_gen,              \* "running" | "done"
    \* ---- DiffDataSet over a MemoryDataSet (src/importtools/datasets.py)
    wrapped,     \* self._wrapped: the wrapped MemoryDataSet
    added,       \* self._added
    removed,     \* self._removed
    changed,     \* self._changed
    listeners,   \* the instances register_change is registered on
    raised,      \* the exception the last call ended with, "none" if it returned
    faulted,     \* whether any call so far ended with an exception
    wrapped0,    \* the wrapped dataset as it was when the DiffDataSet was made
    calls,       \* the number of calls made so far
    \* ---- FullSync / AdditiveSync (src/importtools/sync.py)
    source,      \* the source MemoryDataSet
    status,      \* the status of every instance: "IMPORTED" | "FORCED" | "INVALID"
    status0,     \* the statuses before the first run
    content,     \* the content of every instance
    runs,        \* the number of runs made so far
    last_run,    \* "none" | "full" | "additive": the strategy that ran last
    \* ---- a DiffDataSet and its last call (src/importtools/datasets.py)
    before,      \* the fields of the DiffDataSet before its last call
    last_call,   \* the last call: [op |-> its name, arg |-> its argument, if any]
    \* ---- MemoryDataSet (src/importtools/datasets.py)
    iterable,    \* the iterable given to the constructor, a sequence of instances
    mds,         \* the MemoryDataSet (a dict)
    mds_state,   \* "new" (constructor not run) | "built" | "failed"
    mds_raised,  \* the exception the last call ended with, "none" if it returned
    got,         \* what the last get or pop returned, {} for None
    mds_calls,   \* the number of calls made so far
    \* ---- an Importable and another one it syncs with (src/importtools/importables.py)
    content_attrs,  \* _content_attrs of the instance's class, a set of names
    attrs,          \* the instance's attributes: name -> {} (not set) or {value}
    other,          \* the attributes of the other instance, likewise
    imp_listeners,  \* self._listeners, a sequence of listeners
    notified,       \* the listener calls the last call made, in order, each
                    \* with the attributes the listener saw
    returned,       \* what the last call returned: "None" | "True" | "False"
    imp_raised,     \* the exception the last call ended with, "none" if it returned
    imp_last,       \* the name of the last call, "none" before the first
    imp_calls,      \* the number of calls made so far
    \* ---- natural keys and a RecordingImportable (src/importtools/importables.py)
    natural_key,    \* self._natural_key of the instance
    other_key,      \* the natural key of the other instance
    original,       \* the attributes of self._original (orig), as attrs
    \* ---- chunked_mem_sync over chunked_loader (src/importtools/__init__.py)
    cms_pc,         \* "next": about to ask the loader for a pair | "sync": has
                    \* a pair | "yield": its dataset is with the consumer | "done"
    lookahead,      \* the element read from the merge and chained back, if any
    consumed,       \* the number of elements read from heapq.merge so far
    results,        \* the datasets yielded so far
    cms_status,     \* the status of every instance
    cms_status0,    \* the statuses before the first chunk
    \* ---- DjangoLoader.load_buffered (src/importtools/_django.py)
    table,          \* the rows of the model's table, each its natural key (a, b)
    buffer_size,    \* the buffer_size argument
    dj_state,       \* "created": generator made, not started | "running" |
                    \* "done" | "ValueError" | "TypeError"
    dj_queries,     \* the number of querysets built so far
    dj_yielded      \* the rows yielded so far

chunkVars == <<ordered_iter1, ordered_iter2, chunk_hint, iterator, element,
               pulled, yielded, gen>>
clVars == <<source_loader, destination_loader, cl_chunk_hint, merged, batches,
            cl_gen>>
ddsVars == <<wrapped, added, removed, changed, listeners, raised, faulted, wrapped0,
             calls>>
syncVars == <<source, status, status0, content, runs, last_run>>
histVars == <<before, last_call>>
memVars == <<iterable, mds, mds_state, mds_raised, got, mds_calls>>
impVars == <<content_attrs, attrs, other, imp_listeners, notified, returned,
             imp_raised, imp_last, imp_calls>>
recVars == <<natural_key, other_key, original>>
cmsVars == <<cms_pc, lookahead, consumed, results, cms_status, cms_status0>>
djVars == <<table, buffer_size, dj_state, dj_queries, dj_yielded>>
vars == <<chunkVars, clVars, ddsVars, syncVars, histVars, memVars, impVars,
          recVars, cmsVars, djVars>>

---------------------------------------------------------------------------
(* Bounds of the model. *)
MaxVal == 3      \* input elements are 1..MaxVal
MaxLen == 3      \* longest input sequence
MaxHint == 3     \* largest chunk hint

Values == 1..MaxVal

Min(a, b) == IF a < b THEN a ELSE b

Last(s) == s[Len(s)]

\* The inputs the chunkers are specified for: non-decreasing finite sequences.
IsOrdered(s) == \A i \in 1..(Len(s) - 1) : s[i] <= s[i + 1]

SeqsUpTo(S, n) == UNION {[1..k -> S] : k \in 0..n}

OrderedSeqs == {s \in SeqsUpTo(Values, MaxLen) : IsOrdered(s)}

---------------------------------------------------------------------------
(* chunked_loader *)

\* _iter_const: pairs every value of g with the constant.
IterConst(g, const) == [i \in 1..Len(g) |-> <<g[i], const>>]

\* Python's order on the (value, flag) tuples: by value, then False < True.
TupleLess(x, y) == \/ x[1] < y[1]
                   \/ x[1] = y[1] /\ x[2] = FALSE /\ y[2] = TRUE

\* heapq.merge of two tagged streams: always the smaller head, the first
\* stream's on a tie of the tuples.
RECURSIVE Merge(_, _)
Merge(s, t) ==
    IF s = <<>> THEN t
    ELSE IF t = <<>> THEN s
    ELSE IF TupleLess(t[1], s[1]) THEN <<t[1]>> \o Merge(s, Tail(t))
    ELSE <<s[1]>> \o Merge(Tail(s), t)

\* itertools.islice(iterator, n): the first n elements, fewer if it runs out.
Islice(it, n) == SubSeq(it, 1, Min(n, Len(it)))

\* The elements of a chunk that came from the stream tagged `flag`, in order.
SideOf(chunk, flag) ==
    LET sel == SelectSeq(chunk, LAMBDA e : e[2] = flag)
    IN  [i \in 1..Len(sel) |-> sel[i][1]]

\* How many MORE elements the run extension takes (a wrong variant: just the
\* next one when it is equal, as ChunkedLoader.loader does).
RunLength_single(rest, elem) ==
    IF rest # <<>> /\ <<rest[1][1]>> = elem THEN 1 ELSE 0

\* A wrong variant without the run extension.
RunLength_none(rest, elem) == 0

\* The second for loop: the number of leading elements of `rest` equal to
\* `element`; the first unequal one is chained back in front of the iterator.
RunLength(rest, elem) ==
    LET RECURSIVE Run(_)
        Run(r) == IF r # <<>> /\ <<r[1][1]>> = elem THEN 1 + Run(Tail(r)) ELSE 0
    IN  Run(rest)

\* A wrong variant that drops the unequal element instead of chaining it back.
AfterRun_lost(rest, n) == SubSeq(rest, n + 2, Len(rest))

\* The iterator after a run extension of n elements: the first unequal
\* element (read by the for loop) is chained back in front of what is left.
AfterRun(rest, n) == SubSeq(rest, n + 1, Len(rest))

\* A wrong variant of the islice bound: one element too many.
ChunkSize_over(hint) == hint + 1

\* The number of elements the islice of one loop iteration asks for.
ChunkSize(hint) == hint

\* A wrong variant of the final test that goes round the loop again instead
\* of leaving it.
GenAfter_spin(i1_elemens, i2_elemens) == "running"

\* `if not i1_elemens and not i2_elemens: break`: the generator ends when
\* both lists of a loop iteration are empty, and yields them otherwise.
GenAfter(i1_elemens, i2_elemens) ==
    IF i1_elemens = <<>> /\ i2_elemens = <<>> THEN "done" ELSE "running"

InitChunk ==
    /\ ordered_iter1 \in OrderedSeqs
    /\ ordered_iter2 \in OrderedSeqs
    /\ chunk_hint \in 1..MaxHint
    /\ iterator = Merge(IterConst(ordered_iter1, TRUE),
                        IterConst(ordered_iter2, FALSE))
    /\ element = <<>>
    /\ pulled = <<>>
    /\ yielded = <<>>
    /\ gen = "running"

\* One next() of the generator: one iteration of the while loop, to its
\* yield or to the break that ends the generator.
ChunkedLoaderNext ==
    /\ gen = "running"
    /\ LET current_chunk == Islice(iterator, ChunkSize(chunk_hint))
           rest == SubSeq(iterator, Len(current_chunk) + 1, Len(iterator))
           elem == IF current_chunk = <<>> THEN element
                   ELSE <<Last(current_chunk)[1]>>
           n == RunLength(rest, elem)
           taken == current_chunk \o SubSeq(rest, 1, n)
           i1_elemens == SideOf(taken, TRUE)
           i2_elemens == SideOf(taken, FALSE)
       IN  /\ element' = elem
           /\ pulled' = taken
           /\ iterator' = AfterRun(rest, n)
           /\ gen' = GenAfter(i1_elemens, i2_elemens)
           /\ IF i1_elemens = <<>> /\ i2_elemens = <<>>
              THEN yielded' = yielded
              ELSE yielded' = Append(yielded, <<i1_elemens, i2_elemens>>)
    /\ UNCHANGED <<ordered_iter1, ordered_iter2, chunk_hint>>

---------------------------------------------------------------------------
(* ChunkedLoader.loader *)

InitCL ==
    /\ source_loader \in OrderedSeqs
    /\ destination_loader \in OrderedSeqs
    /\ cl_chunk_hint \in 1..MaxHint
    /\ merged = Merge(IterConst(source_loader, TRUE),
                      IterConst(destination_loader, FALSE))
    /\ batches = <<>>
    /\ cl_gen = "running"

\* The values a factory-made set holds after the adds of one side of a chunk.
AddedTo(chunk, flag) == {chunk[i][1] : i \in {j \in 1..Len(chunk) : chunk[j][2] = flag}}

\* One next() of the generator: one iteration of the while loop.  The
\* factories are set-like (set in the doctest, a DataSet in use).
LoaderNext ==
    /\ cl_gen = "running"
    /\ LET current_chunk == Islice(merged, cl_chunk_hint)
           rest == SubSeq(merged, Len(current_chunk) + 1, Len(merged))
       IN  IF current_chunk = <<>>
           THEN \* raise StopIteration
                /\ cl_gen' = "done"
                /\ UNCHANGED <<merged, batches>>
           ELSE LET importable == Last(current_chunk)[1]
                    \* merged.next(): one look-ahead element, kept when equal,
                    \* chained back when not
                    n == IF rest # <<>> /\ rest[1][1] = importable THEN 1 ELSE 0
                    taken == current_chunk \o SubSeq(rest, 1, n)
                IN  /\ merged' = SubSeq(rest, n + 1, Len(rest))
                    /\ batches' = Append(batches, <<AddedTo(taken, TRUE),
                                                    AddedTo(taken, FALSE)>>)
                    /\ cl_gen' = "running"
    /\ UNCHANGED <<source_loader, destination_loader, cl_chunk_hint>>

---------------------------------------------------------------------------
(* The chunkers called with a chunk hint that is not positive *)

\* The hints that are not positive.
BadHints == (0 - MaxHint)..0

\* Both chunkers are given the same inputs and the same bad hint.
InitBadHint ==
    /\ ordered_iter1 \in OrderedSeqs
    /\ ordered_iter2 \in OrderedSeqs
    /\ chunk_hint \in BadHints
    /\ iterator = Merge(IterConst(ordered_iter1, TRUE),
                        IterConst(ordered_iter2, FALSE))
    /\ element = <<>>
    /\ pulled = <<>>
    /\ yielded = <<>>
    /\ gen = "running"
    /\ source_loader = ordered_iter1
    /\ destination_loader = ordered_iter2
    /\ cl_chunk_hint = chunk_hint
    /\ merged = Merge(IterConst(source_loader, TRUE),
                      IterConst(destination_loader, FALSE))
    /\ batches = <<>>
    /\ cl_gen = "running"

\* The first next() of chunked_loader's generator when the hint is not
\* positive.  No line checks the hint.  itertools.islice raises ValueError
\* for a negative stop.  With 0 the islice is empty and `element` stays
\* unbound: the second for loop reads one element and compares it with
\* `element` (UnboundLocalError), or, the inputs being empty, both lists
\* are empty and the generator ends.
ChunkedLoaderBadHint ==
    /\ gen = "running"
    /\ chunk_hint <= 0
    /\ IF chunk_hint < 0
       THEN gen' = "ValueError" /\ iterator' = iterator
       ELSE IF iterator = <<>>
            THEN gen' = "done" /\ iterator' = iterator
            ELSE gen' = "UnboundLocalError" /\ iterator' = Tail(iterator)
    /\ UNCHANGED <<ordered_iter1, ordered_iter2, chunk_hint, element, pulled,
                   yielded>>

\* The first next() of ChunkedLoader.loader's generator when the hint is
\* not positive.  No line checks the hint.  itertools.islice raises
\* ValueError for a negative stop.  With 0 the islice is empty, `empty`
\* stays True and the generator ends (raise StopIteration).
LoaderBadHint ==
    /\ cl_gen = "running"
    /\ cl_chunk_hint <= 0
    /\ cl_gen' = IF cl_chunk_hint < 0 THEN "ValueError" ELSE "done"
    /\ UNCHANGED <<source_loader, destination_loader, cl_chunk_hint, merged,
                   batches>>

---------------------------------------------------------------------------
(* MemoryDataSet: a dict whose add is  self[importable] = importable *)

MaxKey == 2      \* natural keys are 1..MaxKey
MaxCalls == 4    \* longest sequence of calls on a DiffDataSet

Keys == 1..MaxKey

\* The instances of one natural key: "o" is the one stored first, "n" an
\* equal one made later, "s" an equal one made for a source dataset.
Tags == {"o", "n", "s"}

\* An Importable instance: <<natural key, tag>>.  __eq__ and __hash__ read
\* the natural key alone.
Instances == Keys \X Tags

NaturalKey(x) == x[1]

\* A dict entry: the key object and the value object, equal but possibly
\* two instances.  A dict holds at most one entry per natural key.
Entries == {e \in [key : Instances, val : Instances] :
               NaturalKey(e.key) = NaturalKey(e.val)}

EntryOf(ds, x) == {e \in ds : NaturalKey(e.key) = NaturalKey(x)}

\* importable in ds
Contains(ds, x) == EntryOf(ds, x) # {}

\* The natural keys of a dataset.
Ids(ds) == {NaturalKey(e.key) : e \in ds}

\* dict.get(importable): the stored value, as a set of at most one instance
\* (empty for None).
MemGet(ds, x) == {e.val : e \in EntryOf(ds, x)}

\* iter(ds): a dict iterates over its key objects.
MemIter(ds) == {e.key : e \in ds}


\* MemoryDataSet.add: self[importable] = importable.  Assigning to an equal
\* key keeps the key object already in the dict and replaces the value.
MemAdd(ds, x) ==
    IF Contains(ds, x)
    THEN (ds \ EntryOf(ds, x)) \cup {[key |-> e.key, val |-> x] : e \in EntryOf(ds, x)}
    ELSE ds \cup {[key |-> x, val |-> x]}

\* dict.pop(importable) without a default: the entry goes; KeyError when
\* there is none (see PopRaises).
MemPop(ds, x) == ds \ EntryOf(ds, x)

PopRaises(ds, x) == ~Contains(ds, x)

\* The instances a caller of a dataset holds and passes in.
CallerInstances == {x \in Instances : x[2] \in {"o", "n"}}

\* The iterables of instances a caller can give to the constructor.
Iterables == SeqsUpTo(CallerInstances, MaxLen)

\* MemoryDataSet(iterable): the class defines no __init__, so this is
\* dict(iterable), which reads every element as a (key, value) pair.  An
\* Importable is not a sequence: the first element, if there is one, ends
\* the constructor with TypeError.
DictInitRaises(it) == it # <<>>

\* The dict that dict(iterable) builds when it does not raise.
DictInit(it) == {}

\* One more call is made on the MemoryDataSet.
MdsCall ==
    /\ mds_state = "built"
    /\ mds_calls < MaxCalls
    /\ mds_calls' = mds_calls + 1
    /\ UNCHANGED <<iterable, mds_state>>

InitMem ==
    /\ iterable \in Iterables
    /\ mds = {}
    /\ mds_state = "new"
    /\ mds_raised = "none"
    /\ got = {}
    /\ mds_calls = 0

\* mds = MemoryDataSet(iterable)
MdsConstruct ==
    /\ mds_state = "new"
    /\ IF DictInitRaises(iterable)
       THEN mds_state' = "failed" /\ mds_raised' = "TypeError" /\ mds' = mds
       ELSE mds_state' = "built" /\ mds_raised' = "none"
            /\ mds' = DictInit(iterable)
    /\ UNCHANGED <<iterable, got, mds_calls>>

\* mds.add(x)
MdsAdd(x) ==
    /\ MdsCall
    /\ mds' = MemAdd(mds, x)
    /\ got' = {}
    /\ mds_raised' = "none"

\* mds.get(x)
MdsGet(x) ==
    /\ MdsCall
    /\ got' = MemGet(mds, x)
    /\ mds_raised' = "none"
    /\ mds' = mds

\* mds.pop(x)
MdsPop(x) ==
    /\ MdsCall
    /\ IF PopRaises(mds, x)
       THEN mds_raised' = "KeyError" /\ got' = {} /\ mds' = mds
       ELSE mds_raised' = "none" /\ got' = MemGet(mds, x)
            /\ mds' = MemPop(mds, x)

---------------------------------------------------------------------------
(* DiffDataSet *)

\* The datasets a caller can have built with MemoryDataSet.add from the "o"
\* and "n" instances before wrapping them: per natural key nothing, the
\* first instance, or the first instance replaced by the second.
BuiltDataSets ==
    {ds \in SUBSET {e \in Entries : e.key[2] = "o" /\ e.val[2] \in {"o", "n"}} :
        \A e1, e2 \in ds : NaturalKey(e1.key) = NaturalKey(e2.key) => e1 = e2}

\* DiffDataSet.__init__
InitDiff ==
    /\ wrapped \in BuiltDataSets
    /\ added = {}
    /\ removed = {}
    /\ changed = {}
    /\ listeners = {}
    /\ raised = "none"
    /\ faulted = FALSE
    /\ wrapped0 = wrapped
    /\ calls = 0

\* One more call is made on the DiffDataSet.
Call == calls < MaxCalls /\ calls' = calls + 1

\* The fields of the DiffDataSet, as one value the methods below map to
\* the value after the call.
DDS == [wrapped |-> wrapped, added |-> added, removed |-> removed,
        changed |-> changed, listeners |-> listeners]

\* The DiffDataSet becomes d.
Becomes(d) ==
    /\ wrapped' = d.wrapped
    /\ added' = d.added
    /\ removed' = d.removed
    /\ changed' = d.changed
    /\ listeners' = d.listeners

\* A wrong variant of get that returns the stored instance as it is.
Get_nolistener(d, x) == d

\* DiffDataSet.get: the stored instance gets the listener registered.
Get(d, x) == [d EXCEPT !.listeners = @ \cup MemGet(d.wrapped, x)]

\* DiffDataSet.__iter__, run to its end: the listener is registered on
\* every instance the wrapped dataset iterates over.
Iter(d) == [d EXCEPT !.listeners = @ \cup MemIter(d.wrapped)]

\* A wrong variant of the test in add: a removal is never found.
WasRemoved_never(d, x) == {}

\* was_removed = self._removed.get(importable)
WasRemoved(d, x) == MemGet(d.removed, x)


\* A wrong variant of the test in pop: an addition is never found.
WasAdded_never(d, x) == {}

\* was_added = self._added.get(importable)
WasAdded(d, x) == MemGet(d.added, x)

\* A wrong variant of add that never records a change.
ChangedAfterAdd_never(d, x) == d.changed

\* A wrong variant of add that records every added record as changed.
ChangedAfterAdd_always(d, x) == MemAdd(d.changed, x)

\* self._changed after add(x): the record is a change when it undoes a removal.
ChangedAfterAdd(d, x) ==
    IF WasRemoved(d, x) = {} THEN d.changed ELSE MemAdd(d.changed, x)

\* DiffDataSet.add
Add(d, x) ==
    [d EXCEPT !.wrapped = MemAdd(d.wrapped, x),
              !.added = IF WasRemoved(d, x) = {} THEN MemAdd(d.added, x) ELSE d.added,
              !.removed = IF WasRemoved(d, x) = {} THEN d.removed
                          ELSE MemPop(d.removed, x),
              !.changed = ChangedAfterAdd(d, x)]

\* DiffDataSet.pop.  The bookkeeping comes first, so it stays done when
\* self._wrapped.pop then raises KeyError.
Pop(d, x) ==
    [d EXCEPT !.removed = IF WasAdded(d, x) = {} THEN MemAdd(d.removed, x)
                          ELSE d.removed,
              !.added = IF WasAdded(d, x) = {} THEN d.added ELSE MemPop(d.added, x),
              !.wrapped = MemPop(d.wrapped, x)]

\* DiffDataSet.register_change past its assert.
RegisterChange(d, x) == [d EXCEPT !.changed = MemAdd(d.changed, x)]

\* The call returns.
Returns == raised' = "none" /\ faulted' = faulted

\* The call ends with the exception exc.
Raises(exc) == raised' = exc /\ faulted' = TRUE

DiffGet(x) ==
    /\ Call
    /\ Becomes(Get(DDS, x))
    /\ Returns
    /\ UNCHANGED wrapped0

DiffIter ==
    /\ Call
    /\ Becomes(Iter(DDS))
    /\ Returns
    /\ UNCHANGED wrapped0

DiffAdd(x) ==
    /\ Call
    /\ Becomes(Add(DDS, x))
    /\ Returns
    /\ UNCHANGED wrapped0

DiffPop(x) ==
    /\ Call
    /\ Becomes(Pop(DDS, x))
    /\ IF PopRaises(wrapped, x) THEN Raises("KeyError") ELSE Returns
    /\ UNCHANGED wrapped0

\* DiffDataSet.register_change, called by an instance it is registered on
\* when that instance notifies its listeners.
DiffRegisterChange(x) ==
    /\ Call
    /\ x \in listeners
    /\ IF Contains(wrapped, x)
       THEN Becomes(RegisterChange(DDS, x)) /\ Returns
       ELSE Becomes(DDS) /\ Raises("AssertionError")
    /\ UNCHANGED wrapped0

MaxHistCalls == 3    \* longest sequence of calls whose history is kept

\* A DiffDataSet whose caller keeps its fields as they were before each
\* call, to compare them with what a sequence of two calls leaves.  This
\* caller adds and pops records, and fetches them by iterating.
InitHist ==
    /\ InitDiff
    /\ before = DDS
    /\ last_call = [op |-> "none", arg |-> {}]

\* The call op(arg) is made: the fields before it are kept.
Recorded(op, arg) ==
    /\ calls < MaxHistCalls
    /\ before' = DDS
    /\ last_call' = [op |-> op, arg |-> arg]

IdleDiff ==
    /\ wrapped = {} /\ added = {} /\ removed = {} /\ changed = {}
    /\ listeners = {} /\ raised = "none" /\ faulted = FALSE /\ wrapped0 = {}
    /\ calls = 0

---------------------------------------------------------------------------
(* FullSync and AdditiveSync, run on a source MemoryDataSet and a         *)
(* destination DiffDataSet (whose wrapped MemoryDataSet ends up as a      *)
(* plain MemoryDataSet destination would).                                *)

MaxRuns == 2     \* longest sequence of runs

Statuses == {"IMPORTED", "FORCED", "INVALID"}

\* The source datasets: per natural key nothing or the "s" instance.
SourceDataSets == SUBSET {e \in Entries : e.key[2] = "s" /\ e.val[2] = "s"}

InstancesIn(ds) == {e.key : e \in ds} \cup {e.val : e \in ds}

\* The content each instance is made with: the value depends on who made it,
\* so an instance of the source never has the content of one of the
\* destination.
MadeWith(x) == IF x[2] = "s" THEN 1 ELSE 0

\* existing.is_forced()
IsForced(st, x) == st[x] = "FORCED"

\* existing.make_imported()
MakeImported(st, x) == [st EXCEPT ![x] = "IMPORTED"]

InitSync ==
    /\ wrapped \in BuiltDataSets
    /\ added = {} /\ removed = {} /\ changed = {} /\ listeners = {}
    /\ raised = "none" /\ faulted = FALSE /\ calls = 0
    /\ wrapped0 = wrapped
    /\ source \in SourceDataSets
    /\ \E st \in [InstancesIn(wrapped) \cup InstancesIn(source) -> Statuses] :
          status = [x \in Instances |->
                       IF x \in DOMAIN st THEN st[x] ELSE "IMPORTED"]
    /\ status0 = status
    /\ content = [x \in Instances |-> MadeWith(x)]
    /\ runs = 0
    /\ last_run = "none"

\* A wrong variant of the first loop's body that leaves a forced record forced.
SyncEntry_noflip(entry, s) ==
    LET d == Get(s.d, entry)
    IN  IF MemGet(s.d.wrapped, entry) = {}
        THEN [d |-> Add(d, entry), st |-> s.st]
        ELSE [d |-> d, st |-> s.st]

\* A wrong variant of the first loop's body that makes every record found
\* imported, forced or not.
SyncEntry_allimported(entry, s) ==
    LET existing == MemGet(s.d.wrapped, entry)
        d == Get(s.d, entry)
    IN  IF existing = {}
        THEN [d |-> Add(d, entry), st |-> s.st]
        ELSE [d |-> d, st |-> MakeImported(s.st, CHOOSE x \in existing : TRUE)]

\* The body of the first loop, for one entry of the source.  s holds the
\* destination (d) and the statuses (st).
SyncEntry(entry, s) ==
    LET existing == MemGet(s.d.wrapped, entry)
        d == Get(s.d, entry)
    IN  IF existing = {}
        THEN [d |-> Add(d, entry), st |-> s.st]
        ELSE LET x == CHOOSE x \in existing : TRUE
             IN  IF IsForced(s.st, x)
                 THEN [d |-> d, st |-> MakeImported(s.st, x)]
                 ELSE [d |-> d, st |-> s.st]

RECURSIVE SyncEntries(_, _)
\* for entry in source: ...
SyncEntries(todo, s) ==
    IF todo = {} THEN s
    ELSE LET entry == CHOOSE e \in todo : TRUE
         IN  SyncEntries(todo \ {entry}, SyncEntry(entry, s))

\* A wrong variant of the second loop that deletes forced records too.
ToDelete_forced(src, s) ==
    {existing \in MemIter(s.d.wrapped) : MemGet(src, existing) = {}}

\* A wrong variant of the second loop that does not look the record up in
\* the source.
ToDelete_all(src, s) ==
    {existing \in MemIter(s.d.wrapped) : ~IsForced(s.st, existing)}

\* The second loop of FullSync.run: the instances the destination iterates
\* over that the source has no equal of and that are not forced.
ToDelete(src, s) ==
    {existing \in MemIter(s.d.wrapped) :
        MemGet(src, existing) = {} /\ ~IsForced(s.st, existing)}

RECURSIVE PopAll(_, _)
\* for entry in to_delete: destination.pop(entry)
PopAll(todo, d) ==
    IF todo = {} THEN d
    ELSE LET entry == CHOOSE e \in todo : TRUE
         IN  PopAll(todo \ {entry}, Pop(d, entry))

\* One more run is made.
Run(strategy) ==
    /\ runs < MaxRuns
    /\ runs' = runs + 1
    /\ last_run' = strategy

\* A wrong variant of AdditiveSync.run that goes on with the deletion step.
AdditiveSyncRun_deleting ==
    /\ Run("additive")
    /\ LET s == SyncEntries(MemIter(source), [d |-> DDS, st |-> status])
       IN  /\ Becomes(PopAll(ToDelete(source, s), Iter(s.d)))
           /\ status' = s.st
    /\ UNCHANGED <<source, status0, content, raised, faulted, wrapped0, calls>>

\* AdditiveSync.run(source, destination)
AdditiveSyncRun ==
    /\ Run("additive")
    /\ LET s == SyncEntries(MemIter(source), [d |-> DDS, st |-> status])
       IN  /\ Becomes(s.d)
           /\ status' = s.st
    /\ UNCHANGED <<source, status0, content, raised, faulted, wrapped0, calls>>

\* FullSync.run(source, destination)
FullSyncRun ==
    /\ Run("full")
    /\ LET s == SyncEntries(MemIter(source), [d |-> DDS, st |-> status])
           to_delete == ToDelete(source, s)
       IN  /\ Becomes(PopAll(to_delete, Iter(s.d)))
           /\ status' = s.st
    /\ UNCHANGED <<source, status0, content, raised, faulted, wrapped0, calls>>

---------------------------------------------------------------------------
(* chunked_mem_sync: every pair of chunked_loader is made a dataset and   *)
(* reconciled with its source chunk before the next pair is asked for.    *)

\* The streams of records: natural keys in ascending order, none repeated.
KeyStreams ==
    {s \in SeqsUpTo(Keys, MaxKey) : \A i \in 1..(Len(s) - 1) : s[i] < s[i + 1]}

\* The records of a source chunk and of a destination chunk, as datasets.
AsSource(chunk) ==
    {[key |-> <<chunk[i], "s">>, val |-> <<chunk[i], "s">>] : i \in 1..Len(chunk)}
AsDestination(chunk) ==
    {[key |-> <<chunk[i], "o">>, val |-> <<chunk[i], "o">>] : i \in 1..Len(chunk)}

\* DSFactory(destination): a diff-tracking dataset of the records given.
NewDDS(ds) == [wrapped |-> ds, added |-> {}, removed |-> {}, changed |-> {},
               listeners |-> {}]

\* dest_ds.sync(source): the full reconciliation of FullSync.run, giving
\* the dataset and the statuses afterwards.
FullSyncOf(src, d, st) ==
    LET s == SyncEntries(MemIter(src), [d |-> d, st |-> st])
    IN  [d |-> PopAll(ToDelete(src, s), Iter(s.d)), st |-> s.st]

\* A wrong variant of the second for loop that reads two elements ahead.
Lookahead_two(it) == SubSeq(it, 1, Min(2, Len(it)))

\* The element the second for loop of chunked_loader has read from the
\* merge and chained back in front of it: the first element left, if any.
Lookahead(it) == IF it = <<>> THEN <<>> ELSE <<it[1]>>

InitCms ==
    /\ ordered_iter1 \in KeyStreams
    /\ ordered_iter2 \in KeyStreams
    /\ chunk_hint \in 1..MaxHint
    /\ iterator = Merge(IterConst(ordered_iter1, TRUE),
                        IterConst(ordered_iter2, FALSE))
    /\ element = <<>>
    /\ pulled = <<>>
    /\ yielded = <<>>
    /\ gen = "running"
    /\ cms_pc = "next"
    /\ lookahead = <<>>
    /\ consumed = 0
    /\ results = <<>>
    /\ \E st \in [InstancesIn(AsDestination(ordered_iter2)) -> Statuses] :
          cms_status = [x \in Instances |->
                           IF x \in DOMAIN st THEN st[x] ELSE "IMPORTED"]
    /\ cms_status0 = cms_status

\* `for source, destination in l`: the loader makes its next pair, or ends.
\* What it reads from the merge is the pair, less an element chained back
\* before, plus the element it chains back now.
CmsPull ==
    /\ cms_pc = "next"
    /\ ChunkedLoaderNext
    /\ lookahead' = Lookahead(iterator')
    /\ consumed' = consumed + Len(pulled') - Len(lookahead) + Len(lookahead')
    /\ cms_pc' = IF gen' = "done" THEN "done" ELSE "sync"
    /\ UNCHANGED <<results, cms_status, cms_status0>>

\* dest_ds = DSFactory(destination); dest_ds.sync(source); yield dest_ds
CmsSync ==
    /\ cms_pc = "sync"
    /\ LET pair == Last(yielded)
           r == FullSyncOf(AsSource(pair[1]), NewDDS(AsDestination(pair[2])),
                           cms_status)
       IN  /\ results' = Append(results, r.d)
           /\ cms_status' = r.st
    /\ cms_pc' = "yield"
    /\ UNCHANGED <<chunkVars, lookahead, consumed, cms_status0>>

\* The consumer has the dataset and asks for the next one.
CmsResume ==
    /\ cms_pc = "yield"
    /\ cms_pc' = "next"
    /\ UNCHANGED <<chunkVars, lookahead, consumed, results, cms_status, cms_status0>>

---------------------------------------------------------------------------
(* DjangoLoader.load_buffered *)

\* The rows of the table: one per composite natural key (a, b).
Rows == Keys \X Keys

\* The buffer sizes a caller may pass.
BufferSizes == (0 - MaxHint)..MaxHint

\* l = loader.load_buffered(buffer_size): a generator, nothing has run yet.
InitDj ==
    /\ table \in SUBSET Rows
    /\ buffer_size \in BufferSizes
    /\ dj_state = "created"
    /\ dj_queries = 0
    /\ dj_yielded = <<>>

\* A wrong variant of the check that lets zero through.
SizeRejected_negative(size) == size < 0

\* `if buffer_size <= 0: raise ValueError`
SizeRejected(size) == size <= 0

\* _get_basic_q: builds a queryset and then calls q.values(**all_fields)
\* with all_fields a list; ** of a list is a TypeError, whatever the table.
BasicQRaises == TRUE

\* The first next() of the generator.  After the size check the generator
\* calls _get_basic_q, which raises: the ordering, the slices, _make_cond
\* and the loops after it never run.
DjFirstNext ==
    /\ dj_state = "created"
    /\ IF SizeRejected(buffer_size)
       THEN /\ dj_state' = "ValueError"
            /\ dj_queries' = dj_queries
       ELSE /\ BasicQRaises
            /\ dj_state' = "TypeError"
            /\ dj_queries' = dj_queries + 1
    /\ dj_yielded' = dj_yielded
    /\ UNCHANGED <<table, buffer_size>>

---------------------------------------------------------------------------
(* Importable: content attributes, listeners, update and sync *)

MaxImpCalls == 4    \* longest sequence of calls on an Importable

\* The attribute names used: the classes declare both, the first or none of
\* them as content.
AttrNames == {"a", "b"}
ContentAttrSets == {{}, {"a"}, {"a", "b"}}

\* The values assigned; they are only ever compared with !=.
AttrValues == {"v1", "v2"}

\* The callables registered, and an argument that is not callable.
Listeners == {"l1", "l2"}
NotCallable == "1"

\* The attributes an instance can have.
AttrStates == [AttrNames -> {{}} \cup {{v} : v \in AttrValues}]

\* The keyword arguments of update: values for some of the names.
KwArgs == UNION {[ns -> AttrValues] : ns \in SUBSET AttrNames}

\* MockImportable(0), and another instance with any attributes.
InitImp ==
    /\ content_attrs \in ContentAttrSets
    /\ attrs = [n \in AttrNames |-> {}]
    /\ other \in AttrStates
    /\ imp_listeners = <<>>
    /\ notified = <<>>
    /\ returned = "None"
    /\ imp_raised = "none"
    /\ imp_last = "none"
    /\ imp_calls = 0

\* One more call, named op, is made on the instance.
ImpCall(op) ==
    /\ imp_calls < MaxImpCalls
    /\ imp_calls' = imp_calls + 1
    /\ imp_last' = op
    /\ UNCHANGED <<content_attrs, other>>

\* getattr(self, name, sentinel) != value: an attribute that is not set
\* yields the sentinel, unequal to every value.
Differs(at, name, value) == at[name] # {value}

\* A wrong variant of __setattr__'s test: every content attribute counts as
\* different.
IsDifferent_always(ca, at, name, value) == name \in ca

\* is_different in __setattr__
IsDifferent(ca, at, name, value) == name \in ca /\ Differs(at, name, value)

\* _notify: every entry of self._listeners is called, in order, with the
\* instance as it is then.
Notify(ls, at) == [i \in 1..Len(ls) |-> [listener |-> ls[i], saw |-> at]]

\* The attributes after the assignments of attrs_ (super().__setattr__).
Assigned(at, kw) ==
    [n \in AttrNames |-> IF n \in DOMAIN kw THEN {kw[n]} ELSE at[n]]

\* A wrong variant of _update's result: nothing ever counts as changed.
HasChanged_never(at, kw) == FALSE

\* has_changed of _update: some value given differs from the current one.
HasChanged(at, kw) == \E n \in DOMAIN kw : Differs(at, n, kw[n])

\* A wrong variant of update's check: every name is accepted.
InvalidNames_none(ca, kw) == {}

\* The names update rejects: those that are not content attributes.
InvalidNames(ca, kw) == {n \in DOMAIN kw : n \notin ca}

\* A wrong variant of _sync that copies every attribute the other has.
SyncAttrs_all(ca, oth) ==
    LET ns == {n \in AttrNames : oth[n] # {}}
    IN  [n \in ns |-> CHOOSE v \in oth[n] : TRUE]

\* attrs of _sync: the content attributes that the other instance has, with
\* the other's values.
SyncAttrs(ca, oth) ==
    LET ns == {n \in ca : oth[n] # {}}
    IN  [n \in ns |-> CHOOSE v \in oth[n] : TRUE]

\* A wrong variant of register that keeps a listener only once.
Registered_once(ls, l) ==
    IF \E i \in 1..Len(ls) : ls[i] = l THEN ls ELSE Append(ls, l)

\* self._listeners.append(listener)
Registered(ls, l) == Append(ls, l)

\* "True" or "False"
Bool(b) == IF b THEN "True" ELSE "False"

\* self.name = value (Importable.__setattr__)
ImpSetAttr(name, value) ==
    /\ ImpCall("setattr")
    /\ attrs' = Assigned(attrs, [n \in {name} |-> value])
    /\ notified' = IF IsDifferent(content_attrs, attrs, name, value)
                   THEN Notify(imp_listeners, attrs')
                   ELSE <<>>
    /\ returned' = "None"
    /\ imp_raised' = "none"
    /\ UNCHANGED imp_listeners

\* The changes that _update(kw) followed by `if has_changed: self._notify()`
\* makes, and what is returned.
Updated(kw) ==
    /\ attrs' = Assigned(attrs, kw)
    /\ notified' = IF HasChanged(attrs, kw) THEN Notify(imp_listeners, attrs')
                   ELSE <<>>
    /\ returned' = Bool(HasChanged(attrs, kw))
    /\ imp_raised' = "none"

\* self.update(**kw)
ImpUpdate(kw) ==
    /\ ImpCall("update")
    /\ IF InvalidNames(content_attrs, kw) # {}
       THEN /\ imp_raised' = "ValueError"
            /\ returned' = "None"
            /\ notified' = <<>>
            /\ attrs' = attrs
       ELSE Updated(kw)
    /\ UNCHANGED imp_listeners

\* self.sync(other)
ImpSync ==
    /\ ImpCall("sync")
    /\ Updated(SyncAttrs(content_attrs, other))
    /\ UNCHANGED imp_listeners

\* A wrong variant of register without the callable check.
ImpRegister_unchecked(l) ==
    /\ ImpCall("register")
    /\ imp_listeners' = Registered(imp_listeners, l)
    /\ imp_raised' = "none"
    /\ notified' = <<>>
    /\ returned' = "None"
    /\ UNCHANGED attrs

\* self.register(listener)
ImpRegister(l) ==
    /\ ImpCall("register")
    /\ IF l \in Listeners
       THEN imp_listeners' = Registered(imp_listeners, l) /\ imp_raised' = "none"
       ELSE imp_listeners' = imp_listeners /\ imp_raised' = "ValueError"
    /\ notified' = <<>>
    /\ returned' = "None"
    /\ UNCHANGED attrs

\* self._notify(), called by itself as in the doctest of register
ImpNotify ==
    /\ ImpCall("notify")
    /\ notified' = Notify(imp_listeners, attrs)
    /\ returned' = "None"
    /\ imp_raised' = "none"
    /\ UNCHANGED <<attrs, imp_listeners>>

---------------------------------------------------------------------------
(* Importable: identity, hash and order by natural key *)

\* The natural keys used: integers, two of which CPython hashes alike.
ImpKeys == {0 - 2, 0 - 1, 0}

\* hash() of a small integer in CPython: the integer itself, but -2 for -1
\* (-1 is the error value of the hash slot).
KeyHash(k) == IF k = 0 - 1 THEN 0 - 2 ELSE k

\* The instance and the other one, as natural key and attributes.
Self == [natural_key |-> natural_key, attrs |-> attrs]
Other == [natural_key |-> other_key, attrs |-> other]

\* Importable.__hash__
ImpHash(x) == KeyHash(x.natural_key)

\* A wrong variant of __eq__ that looks at the attributes too.
ImpEq_content(x, y) == x = y

\* Importable.__eq__
ImpEq(x, y) == x.natural_key = y.natural_key

\* Importable.__lt__
ImpLt(x, y) == x.natural_key < y.natural_key

\* Importable(k) and another instance with any key and attributes.
InitKey ==
    /\ InitImp
    /\ natural_key \in ImpKeys
    /\ other_key \in ImpKeys
    /\ original = [n \in AttrNames |-> {}]

---------------------------------------------------------------------------
(* RecordingImportable: orig and reset *)

\* The attributes of a new object: none is set.
NoAttrs == [n \in AttrNames |-> {}]

\* A wrong variant of copy that does not clear the attributes first.
Copy_noclear(orig, ca, oth) == Assigned(orig, SyncAttrs(ca, oth))

\* _Original.copy: self.__dict__.clear(), then self._sync(content_attrs,
\* other); the result is what orig holds afterwards.
Copy(orig, ca, oth) == Assigned(NoAttrs, SyncAttrs(ca, oth))

\* MockImportable(0, **kwargs) of a RecordingImportable class: the keyword
\* arguments set content attributes, then __init__ makes _original and
\* calls reset().
InitRec ==
    /\ content_attrs \in ContentAttrSets
    /\ attrs \in {at \in AttrStates : \A n \in AttrNames \ content_attrs : at[n] = {}}
    /\ original = Copy(NoAttrs, content_attrs, attrs)
    /\ other \in AttrStates
    /\ imp_listeners = <<>>
    /\ notified = <<>>
    /\ returned = "None"
    /\ imp_raised = "none"
    /\ imp_last = "none"
    /\ imp_calls = 0
    /\ natural_key = 0
    /\ other_key = 0

\* self.reset()
RecReset ==
    /\ ImpCall("reset")
    /\ original' = Copy(original, content_attrs, attrs)
    /\ notified' = <<>>
    /\ returned' = "None"
    /\ imp_raised' = "none"
    /\ UNCHANGED <<attrs, imp_listeners, natural_key, other_key>>

\* del self.name: object.__delattr__, which raises AttributeError when the
\* attribute is not set; Importable defines no __delattr__, so nobody is
\* notified.
RecDelAttr(name) ==
    /\ ImpCall("delattr")
    /\ attrs' = [attrs EXCEPT ![name] = {}]
    /\ imp_raised' = IF attrs[name] = {} THEN "AttributeError" ELSE "none"
    /\ notified' = <<>>
    /\ returned' = "None"
    /\ UNCHANGED <<imp_listeners, recVars>>

---------------------------------------------------------------------------
(* Values of the variables of a subsystem that a specification does not run. *)
IdleChunk ==
    /\ ordered_iter1 = <<>> /\ ordered_iter2 = <<>> /\ chunk_hint = 1
    /\ iterator = <<>> /\ element = <<>> /\ pulled = <<>> /\ yielded = <<>>
    /\ gen = "done"

IdleCL ==
    /\ source_loader = <<>> /\ destination_loader = <<>> /\ cl_chunk_hint = 1
    /\ merged = <<>> /\ batches = <<>> /\ cl_gen = "done"

IdleSync ==
    /\ source = {}
    /\ status = [x \in Instances |-> "IMPORTED"]
    /\ status0 = status
    /\ content = [x \in Instances |-> MadeWith(x)]
    /\ runs = 0
    /\ last_run = "none"

IdleHist ==
    /\ before = [wrapped |-> {}, added |-> {}, removed |-> {}, changed |-> {},
                 listeners |-> {}]
    /\ last_call = [op |-> "none", arg |-> {}]

IdleMem ==
    /\ iterable = <<>> /\ mds = {} /\ mds_state = "new" /\ mds_raised = "none"
    /\ got = {} /\ mds_calls = 0

IdleDj ==
    /\ table = {}
    /\ buffer_size = 1
    /\ dj_state = "done"
    /\ dj_queries = 0
    /\ dj_yielded = <<>>

IdleCms ==
    /\ cms_pc = "done"
    /\ lookahead = <<>>
    /\ consumed = 0
    /\ results = <<>>
    /\ cms_status = [x \in Instances |-> "IMPORTED"]
    /\ cms_status0 = [x \in Instances |-> "IMPORTED"]

IdleRec ==
    /\ natural_key = 0
    /\ other_key = 0
    /\ original = [n \in AttrNames |-> {}]

IdleImp ==
    /\ content_attrs = {}
    /\ attrs = [n \in AttrNames |-> {}]
    /\ other = [n \in AttrNames |-> {}]
    /\ imp_listeners = <<>> /\ notified = <<>> /\ returned = "None"
    /\ imp_raised = "none" /\ imp_last = "none" /\ imp_calls = 0

---------------------------------------------------------------------------
(* Specifications *)

ChunkInit == InitChunk /\ IdleCL /\ IdleDiff /\ IdleSync /\ IdleHist /\ IdleMem
             /\ IdleDj
             /\ IdleCms
             /\ IdleRec
             /\ IdleImp
ChunkNext == ChunkedLoaderNext /\ UNCHANGED <<clVars, ddsVars, syncVars, histVars, memVars, impVars, recVars, cmsVars, djVars>>
SpecChunk == ChunkInit /\ [][ChunkNext]_vars
\* The consumer keeps calling next() until the generator is exhausted.
SpecChunkLive == ChunkInit /\ [][ChunkNext]_vars /\ WF_vars(ChunkNext)

CLInit == InitCL /\ IdleChunk /\ IdleDiff /\ IdleSync /\ IdleHist /\ IdleMem
          /\ IdleDj
          /\ IdleCms
          /\ IdleRec
          /\ IdleImp
CLNext == LoaderNext /\ UNCHANGED <<chunkVars, ddsVars, syncVars, histVars, memVars, impVars, recVars, cmsVars, djVars>>
SpecCL == CLInit /\ [][CLNext]_vars

DiffInit == InitDiff /\ IdleChunk /\ IdleCL /\ IdleSync /\ IdleHist /\ IdleMem
            /\ IdleDj
            /\ IdleCms
            /\ IdleRec
            /\ IdleImp
GetCall == (\E x \in CallerInstances : DiffGet(x))
           /\ UNCHANGED <<chunkVars, clVars, syncVars, histVars, memVars, impVars, recVars, cmsVars, djVars>>
IterCall == DiffIter /\ UNCHANGED <<chunkVars, clVars, syncVars, histVars, memVars, impVars, recVars, cmsVars, djVars>>
AddCall == (\E x \in CallerInstances : DiffAdd(x))
           /\ UNCHANGED <<chunkVars, clVars, syncVars, histVars, memVars, impVars, recVars, cmsVars, djVars>>
PopCall == (\E x \in CallerInstances : DiffPop(x))
           /\ UNCHANGED <<chunkVars, clVars, syncVars, histVars, memVars, impVars, recVars, cmsVars, djVars>>
ChangeCall == (\E x \in CallerInstances : DiffRegisterChange(x))
              /\ UNCHANGED <<chunkVars, clVars, syncVars, histVars, memVars, impVars, recVars, cmsVars, djVars>>
DiffNext == GetCall \/ IterCall \/ AddCall \/ PopCall \/ ChangeCall
SpecDiff == DiffInit /\ [][DiffNext]_vars

HistInit == InitHist /\ IdleChunk /\ IdleCL /\ IdleSync /\ IdleMem
            /\ IdleDj
            /\ IdleCms
            /\ IdleRec
            /\ IdleImp
HistIter == DiffIter /\ Recorded("iter", {})
            /\ UNCHANGED <<chunkVars, clVars, syncVars, memVars, impVars, recVars, cmsVars, djVars>>
HistAdd == (\E x \in CallerInstances : DiffAdd(x) /\ Recorded("add", {x}))
           /\ UNCHANGED <<chunkVars, clVars, syncVars, memVars, impVars, recVars, cmsVars, djVars>>
HistPop == (\E x \in CallerInstances : DiffPop(x) /\ Recorded("pop", {x}))
           /\ UNCHANGED <<chunkVars, clVars, syncVars, memVars, impVars, recVars, cmsVars, djVars>>
HistChange == (\E x \in CallerInstances :
                  DiffRegisterChange(x) /\ Recorded("register_change", {x}))
              /\ UNCHANGED <<chunkVars, clVars, syncVars, memVars, impVars, recVars, cmsVars, djVars>>
HistNext == HistIter \/ HistAdd \/ HistPop \/ HistChange
SpecHist == HistInit /\ [][HistNext]_vars

BadHintInit == InitBadHint /\ IdleDiff /\ IdleSync /\ IdleHist /\ IdleMem
               /\ IdleDj
               /\ IdleCms
               /\ IdleRec
               /\ IdleImp
BadHintChunk == ChunkedLoaderBadHint
                /\ UNCHANGED <<clVars, ddsVars, syncVars, histVars, memVars, impVars, recVars, cmsVars, djVars>>
BadHintLoader == LoaderBadHint
                 /\ UNCHANGED <<chunkVars, ddsVars, syncVars, histVars, memVars, impVars, recVars, cmsVars, djVars>>
BadHintNext == BadHintChunk \/ BadHintLoader
SpecBadHint == BadHintInit /\ [][BadHintNext]_vars

ImpInit == InitImp /\ IdleChunk /\ IdleCL /\ IdleDiff /\ IdleSync /\ IdleHist
           /\ IdleDj
           /\ IdleCms
           /\ IdleRec
           /\ IdleMem
SetAttrCall == (\E n \in AttrNames, v \in AttrValues : ImpSetAttr(n, v))
               /\ UNCHANGED <<chunkVars, clVars, ddsVars, syncVars, histVars, memVars, recVars, cmsVars, djVars>>
UpdateCall == (\E kw \in KwArgs : ImpUpdate(kw))
              /\ UNCHANGED <<chunkVars, clVars, ddsVars, syncVars, histVars, memVars, recVars, cmsVars, djVars>>
SyncCall == ImpSync
            /\ UNCHANGED <<chunkVars, clVars, ddsVars, syncVars, histVars, memVars, recVars, cmsVars, djVars>>
RegisterCall == (\E l \in Listeners \cup {NotCallable} : ImpRegister(l))
                /\ UNCHANGED <<chunkVars, clVars, ddsVars, syncVars, histVars, memVars, recVars, cmsVars, djVars>>
ImpNext == SetAttrCall \/ UpdateCall \/ SyncCall \/ RegisterCall
SpecImp == ImpInit /\ [][ImpNext]_vars

NotifyCall == ImpNotify
              /\ UNCHANGED <<chunkVars, clVars, ddsVars, syncVars, histVars, memVars, cmsVars, djVars>>
              /\ UNCHANGED recVars
KeyInit == InitKey /\ IdleChunk /\ IdleCL /\ IdleDiff /\ IdleSync /\ IdleHist
           /\ IdleDj
           /\ IdleCms
           /\ IdleMem
KeyNext == SetAttrCall \/ UpdateCall \/ SyncCall \/ RegisterCall \/ NotifyCall
SpecKey == KeyInit /\ [][KeyNext]_vars

RecInit == InitRec /\ IdleChunk /\ IdleCL /\ IdleDiff /\ IdleSync /\ IdleHist
           /\ IdleDj
           /\ IdleCms
           /\ IdleMem
ResetCall == RecReset
             /\ UNCHANGED <<chunkVars, clVars, ddsVars, syncVars, histVars, memVars, cmsVars, djVars>>
DelAttrCall == (\E n \in AttrNames : RecDelAttr(n))
               /\ UNCHANGED <<chunkVars, clVars, ddsVars, syncVars, histVars, memVars, cmsVars, djVars>>
RecNext == SetAttrCall \/ UpdateCall \/ SyncCall \/ DelAttrCall \/ ResetCall
SpecRec == RecInit /\ [][RecNext]_vars

CmsInit == InitCms /\ IdleCL /\ IdleDiff /\ IdleSync /\ IdleHist /\ IdleMem
           /\ IdleDj
           /\ IdleImp /\ IdleRec
Pull == CmsPull
        /\ UNCHANGED <<clVars, ddsVars, syncVars, histVars, memVars, impVars, recVars, djVars>>
Reconcile == CmsSync
             /\ UNCHANGED <<clVars, ddsVars, syncVars, histVars, memVars, impVars, recVars, djVars>>
Resume == CmsResume
          /\ UNCHANGED <<clVars, ddsVars, syncVars, histVars, memVars, impVars, recVars, djVars>>
CmsNext == Pull \/ Reconcile \/ Resume
SpecCms == CmsInit /\ [][CmsNext]_vars

DjInit == InitDj /\ IdleChunk /\ IdleCL /\ IdleDiff /\ IdleSync /\ IdleHist
          /\ IdleMem /\ IdleImp /\ IdleRec /\ IdleCms
DjNext == DjFirstNext
          /\ UNCHANGED <<chunkVars, clVars, ddsVars, syncVars, histVars, memVars>>
          /\ UNCHANGED <<impVars, recVars, cmsVars>>
SpecDj == DjInit /\ [][DjNext]_vars

MemInit == InitMem /\ IdleChunk /\ IdleCL /\ IdleDiff /\ IdleSync /\ IdleHist
           /\ IdleDj
           /\ IdleCms
           /\ IdleRec
           /\ IdleImp
Construct == MdsConstruct
             /\ UNCHANGED <<chunkVars, clVars, ddsVars, syncVars, histVars, impVars, recVars, cmsVars, djVars>>
MemAddCall == (\E x \in CallerInstances : MdsAdd(x))
              /\ UNCHANGED <<chunkVars, clVars, ddsVars, syncVars, histVars, impVars, recVars, cmsVars, djVars>>
MemGetCall == (\E x \in CallerInstances : MdsGet(x))
              /\ UNCHANGED <<chunkVars, clVars, ddsVars, syncVars, histVars, impVars, recVars, cmsVars, djVars>>
MemPopCall == (\E x \in CallerInstances : MdsPop(x))
              /\ UNCHANGED <<chunkVars, clVars, ddsVars, syncVars, histVars, impVars, recVars, cmsVars, djVars>>
MemNext == Construct \/ MemAddCall \/ MemGetCall \/ MemPopCall
SpecMem == MemInit /\ [][MemNext]_vars

SyncInit == InitSync /\ IdleChunk /\ IdleCL /\ IdleHist /\ IdleMem
            /\ IdleDj
            /\ IdleCms
            /\ IdleRec
            /\ IdleImp
AdditiveRun == AdditiveSyncRun /\ UNCHANGED <<chunkVars, clVars, histVars, memVars, impVars, recVars, cmsVars, djVars>>
FullRun == FullSyncRun /\ UNCHANGED <<chunkVars, clVars, histVars, memVars, impVars, recVars, cmsVars, djVars>>
SyncNext == AdditiveRun \/ FullRun
SpecSync == SyncInit /\ [][SyncNext]_vars

\* FullSync run again and again on the same source and destination.
SpecFullTwice == SyncInit /\ [][FullRun]_vars

---------------------------------------------------------------------------
(* Properties of chunked_loader (under SpecChunk) *)

RECURSIVE Flatten(_, _)
\* The concatenation of the k-th components of a sequence of pairs.
Flatten(pairs, k) ==
    IF pairs = <<>> THEN <<>> ELSE pairs[1][k] \o Flatten(Tail(pairs), k)

PairValues(pair) == {pair[1][i] : i \in 1..Len(pair[1])}
                    \cup {pair[2][i] : i \in 1..Len(pair[2])}

PairSize(pair) == Len(pair[1]) + Len(pair[2])

\* C1: the first components of the yielded pairs, concatenated in yield
\* order and followed by what the merge still holds of the first input, are
\* the first input in order, and the same for the second components and the
\* second input; when the generator has finished nothing is left in the
\* merge, so the concatenations are exactly the two inputs.
C1_Concatenation ==
    /\ Flatten(yielded, 1) \o SideOf(iterator, TRUE) = ordered_iter1
    /\ Flatten(yielded, 2) \o SideOf(iterator, FALSE) = ordered_iter2
    /\ gen = "done" => /\ iterator = <<>>
                       /\ Flatten(yielded, 1) = ordered_iter1
                       /\ Flatten(yielded, 2) = ordered_iter2

\* C1 witness: a finished run over two non-empty inputs that took several
\* chunk pairs, one of which had to push an element back.
C1_Witness ==
    /\ gen = "done"
    /\ ordered_iter1 # <<>> /\ ordered_iter2 # <<>>
    /\ Len(yielded) >= 2
    /\ Len(ordered_iter1) + Len(ordered_iter2) > 2 * chunk_hint

\* C2: no value occurs in two different yielded chunk pairs, on either side.
C2_EqualsTogether ==
    \A i, j \in 1..Len(yielded) :
        i # j => PairValues(yielded[i]) \cap PairValues(yielded[j]) = {}

\* C2 witness: a chunk pair that holds a run of equal elements longer than
\* the hint, with elements from both inputs, and is not the only pair.
C2_Witness ==
    /\ Len(yielded) >= 2
    /\ \E i \in 1..Len(yielded) :
          /\ PairSize(yielded[i]) > chunk_hint + 1
          /\ \E v \in Values :
                /\ Cardinality({k \in 1..Len(yielded[i][1]) : yielded[i][1][k] = v})
                   + Cardinality({k \in 1..Len(yielded[i][2]) : yielded[i][2][k] = v})
                   > chunk_hint
                /\ \E k \in 1..Len(yielded[i][1]) : yielded[i][1][k] = v
                /\ \E k \in 1..Len(yielded[i][2]) : yielded[i][2][k] = v

\* C4: the pair just yielded holds exactly the elements pulled for it; it is
\* larger than the hint only when every element pulled after the hint-th
\* equals the hint-th; and every yielded pair but the last has at least
\* hint elements.
C4_ChunkSize ==
    /\ (gen = "running" /\ yielded # <<>>) =>
          /\ PairSize(Last(yielded)) = Len(pulled)
          /\ Len(pulled) > chunk_hint =>
                \A k \in (chunk_hint + 1)..Len(pulled) :
                    pulled[k][1] = pulled[chunk_hint][1]
    /\ \A i \in 1..(Len(yielded) - 1) : PairSize(yielded[i]) >= chunk_hint

\* C4 witness: a pair larger than the hint after a pair of exactly the hint.
C4_Witness ==
    /\ gen = "running"
    /\ Len(yielded) >= 2
    /\ PairSize(yielded[1]) = chunk_hint
    /\ Len(pulled) > chunk_hint
    /\ chunk_hint >= 2

---------------------------------------------------------------------------
(* Properties of ChunkedLoader.loader (under SpecCL) *)

BatchValues(batch) == batch[1] \cup batch[2]

SetMax(S) == CHOOSE m \in S : \A x \in S : x <= m

\* C3: every element equal to the last (largest) element of a batch is in
\* that batch: no other batch holds that value.
C3_RunNotSplit ==
    \A i, j \in 1..Len(batches) :
        i # j => SetMax(BatchValues(batches[i])) \notin BatchValues(batches[j])

---------------------------------------------------------------------------
(* Properties of DiffDataSet (under SpecDiff) *)

\* C5: as long as every call returned, the natural keys of the wrapped
\* dataset are those it had when tracking began, minus the removed ones,
\* plus the added ones.
C5_NetDiff ==
    ~faulted => Ids(wrapped) = (Ids(wrapped0) \ Ids(removed)) \cup Ids(added)

\* C6: no natural key is in both added and removed.
C6_AddedRemovedDisjoint == Ids(added) \cap Ids(removed) = {}

\* C6 witness: a record was added, an original member was removed and another
\* removal was undone by an add, so all three sets are in use.
C6_Witness ==
    /\ ~faulted
    /\ added # {} /\ removed # {} /\ changed # {}
    /\ Ids(removed) \subseteq Ids(wrapped0)

\* C7: added, removed and changed are pairwise disjoint by natural key.
C7_PairwiseDisjoint ==
    ~faulted => /\ Ids(added) \cap Ids(removed) = {}
                /\ Ids(changed) \cap Ids(added) = {}
                /\ Ids(changed) \cap Ids(removed) = {}

\* C8 as stated: a natural key enters changed only by a change notification
\* (a step that leaves wrapped, added and removed alone) for a key that was
\* in the wrapped dataset when tracking began.
C8_OnlyNotifiedOriginals ==
    [][~faulted' =>
          \A k \in Ids(changed') \ Ids(changed) :
              /\ k \in Ids(wrapped0)
              /\ UNCHANGED <<wrapped, added, removed>>]_vars

\* C8 as amended: a natural key enters changed only by a change notification
\* fired for it while it is a member, or by an add of a key that is in
\* removed (which takes it out of removed); no pop puts a key in changed.
C8_ChangedOnlyByNotifyOrReAdd ==
    [][\A k \in Ids(changed') \ Ids(changed) :
          \/ /\ k \in Ids(wrapped)
             /\ \E x \in listeners : NaturalKey(x) = k
             /\ UNCHANGED <<wrapped, added, removed>>
          \/ /\ k \in Ids(removed) /\ k \notin Ids(removed')
             /\ k \in Ids(wrapped')
             /\ added' = added]_vars

\* C8 witness: an original member is in changed because its removal was
\* undone by an add; no change notification was ever fired for it (no
\* listener was handed out for it) and no call has raised.
C8_Witness ==
    /\ ~faulted
    /\ \E k \in Ids(changed) :
          /\ k \in Ids(wrapped0)
          /\ k \in Ids(wrapped)
          /\ k \notin Ids(removed)
          /\ \A x \in listeners : NaturalKey(x) # k

---------------------------------------------------------------------------
(* Properties of FullSync and AdditiveSync (under SpecSync) *)

\* The step is a run of FullSync.
FullStep == runs' = runs + 1 /\ last_run' = "full"

\* The step is a run of either strategy.
AnyRunStep == runs' = runs + 1

\* The entries of the destination whose natural key the source lacks.
AbsentFromSource == {e \in wrapped : NaturalKey(e.key) \notin Ids(source)}

\* The entries of the destination whose natural key the source has.
PresentInSource == {e \in wrapped : NaturalKey(e.key) \in Ids(source)}

---------------------------------------------------------------------------
(* More properties of FullSync and AdditiveSync (under SpecSync) *)

\* The entries of the destination that the first loop finds for an entry of
\* the source and whose record (what get returns) is imported or invalid.
UpToDateCandidates ==
    {e \in PresentInSource : status[e.val] \in {"IMPORTED", "INVALID"}}

\* C11: after a run of either strategy, every destination record that was
\* imported or invalid and has an equal record in the source has the content
\* of that source record, and its natural key is in changed when the content
\* differed before the run.
C11_ContentSynced ==
    [][AnyRunStep =>
          \A e \in UpToDateCandidates : \A x \in MemGet(source, e.val) :
              /\ content'[e.val] = content[x]
              /\ content[e.val] # content[x] =>
                    NaturalKey(e.val) \in Ids(changed')]_vars

---------------------------------------------------------------------------
(* More properties of DiffDataSet (under SpecDiff) *)

\* C14: a pop of a record the dataset has no equal of returns (it does not
\* raise) and leaves the wrapped dataset, added, removed and changed as
\* they were.
C14_PopAbsentNoOp ==
    [][\A x \in CallerInstances :
          (DiffPop(x) /\ ~Contains(wrapped, x)) =>
              /\ raised' = "none"
              /\ UNCHANGED <<wrapped, added, removed, changed>>]_vars

\* C15: the assertion of register_change never fails.
C15_ListenerOnMembersOnly == raised # "AssertionError"

C20_AddInstallsListener ==
    [][\A x \in CallerInstances : DiffAdd(x) => x \in listeners']_vars

---------------------------------------------------------------------------
(* Properties of MemoryDataSet (under SpecMem) *)

\* The instances of the natural key of x that iterating over ds yields.
IterOf(ds, x) == {k \in MemIter(ds) : NaturalKey(k) = NaturalKey(x)}

\* C12: after add(r), get(p) returns r for every p equal to r, iteration
\* yields r and no other instance of its natural key, and get of an
\* instance the dataset has no equal of returns None; also when an equal
\* instance was stored before the add.
C12_AddReplaces ==
    [][\A r \in CallerInstances :
          MdsAdd(r) =>
              /\ \A p \in CallerInstances :
                    NaturalKey(p) = NaturalKey(r) => MemGet(mds', p) = {r}
              /\ IterOf(mds', r) = {r}
              /\ \A p \in CallerInstances :
                    NaturalKey(p) \notin Ids(mds') => MemGet(mds', p) = {}]_vars

\* Two elements of the iterable are equal.
HasDuplicates(it) ==
    \E i, j \in 1..Len(it) : i # j /\ NaturalKey(it[i]) = NaturalKey(it[j])

\* C13: the constructor fails with DuplicateIdentity and builds nothing when
\* two elements of the iterable are equal; otherwise it builds a dataset
\* whose iteration yields, as a set, the elements of the iterable.
C13_ConstructFromIterable ==
    mds_state # "new" =>
        IF HasDuplicates(iterable)
        THEN mds_state = "failed" /\ mds_raised = "DuplicateIdentity"
        ELSE /\ mds_state = "built"
             /\ mds_calls = 0 =>
                   MemIter(mds) = {iterable[i] : i \in 1..Len(iterable)}

---------------------------------------------------------------------------
(* Properties of two consecutive calls on a DiffDataSet (under SpecHist) *)

\* x has an equal in d that has been a member, untouched, since the dataset
\* was wrapped: the entry is the one of wrapped0 and is not an addition.
OriginalMember(d, x) ==
    /\ Contains(d.wrapped, x)
    /\ EntryOf(d.wrapped, x) \subseteq wrapped0
    /\ ~Contains(d.added, x)

\* The step is add(y), the call before it was pop(x), which returned, x and
\* y are equal, and x was an original member before the pop.
PopThenAdd(x, y) ==
    /\ last_call = [op |-> "pop", arg |-> {x}]
    /\ raised = "none"
    /\ NaturalKey(x) = NaturalKey(y)
    /\ OriginalMember(before, x)
    /\ DiffAdd(y)

\* The step is pop(y), the call before it was add(x), x and y are equal, and
\* before the add the dataset had no equal of x, nor had removed.
AddThenPop(x, y) ==
    /\ last_call = [op |-> "add", arg |-> {x}]
    /\ NaturalKey(x) = NaturalKey(y)
    /\ ~Contains(before.wrapped, x)
    /\ ~Contains(before.removed, x)
    /\ DiffPop(y)

C18_AddPopCancels ==
    [][\A x, y \in CallerInstances :
          AddThenPop(x, y) =>
              /\ raised' = "none"
              /\ wrapped' = before.wrapped
              /\ added' = before.added
              /\ removed' = before.removed
              /\ changed' = before.changed]_vars

\* C18 witness: the last call popped a record that the call before had
\* added and that the dataset never had before; nothing is left of it.
C18_Witness ==
    /\ ~faulted
    /\ last_call.op = "pop"
    /\ \E y \in last_call.arg :
          /\ NaturalKey(y) \notin Ids(wrapped0)
          /\ NaturalKey(y) \in Ids(before.added)
          /\ NaturalKey(y) \notin Ids(wrapped) \cup Ids(added) \cup Ids(removed)

---------------------------------------------------------------------------
(* Properties of repeated and additive runs (under SpecFullTwice, SpecSync) *)

\* C26 (under SpecFullTwice, where every run is a run of FullSync): a run
\* that follows another on the same source and destination records no
\* addition and no removal: the destination, added and removed are after
\* it what they were before it, and so is changed (no run writes content).
C26_SecondRunNoDiff ==
    [][(FullStep /\ runs >= 1) =>
          /\ wrapped' = wrapped
          /\ added' = added
          /\ removed' = removed
          /\ changed' = changed]_vars

\* C26 witness: two runs were made, of which the first added a record and
\* removed another.
C26_Witness ==
    /\ runs = 2
    /\ last_run = "full"
    /\ added # {}
    /\ removed # {}

\* The step is a run of AdditiveSync.
AdditiveStep == runs' = runs + 1 /\ last_run' = "additive"

\* C27: a run of either strategy changes the status of an instance held by
\* the destination only from forced to imported, and only when the source
\* has an equal record; invalid and imported records keep their status.
C27_OnlyForcedToImported ==
    [][AnyRunStep =>
          \A x \in InstancesIn(wrapped) :
              /\ status'[x] # status[x] =>
                    /\ status[x] = "FORCED"
                    /\ status'[x] = "IMPORTED"
                    /\ NaturalKey(x) \in Ids(source)
              /\ status[x] \in {"INVALID", "IMPORTED"} =>
                    status'[x] = status[x]]_vars

\* C27 witness: after one run an invalid record that the source has an
\* equal of is still in the destination and invalid, and a forced one has
\* become imported.
C27_Witness ==
    /\ runs = 1
    /\ \E e \in wrapped0 : /\ NaturalKey(e.key) \in Ids(source)
                           /\ status0[e.val] = "INVALID"
                           /\ e \in wrapped
                           /\ status[e.val] = "INVALID"
    /\ \E e \in wrapped0 : /\ NaturalKey(e.key) \in Ids(source)
                           /\ status0[e.val] = "FORCED"
                           /\ status[e.val] = "IMPORTED"

\* C28: after a run of either strategy every record of the source that the
\* destination had no equal of is in the destination, and the record stored
\* for it is imported, whatever its status was.
C28_AddedAsImported ==
    [][AnyRunStep =>
          \A e \in source :
              NaturalKey(e.key) \notin Ids(wrapped) =>
                  /\ NaturalKey(e.key) \in Ids(wrapped')
                  /\ \A x \in MemGet(wrapped', e.key) :
                        status'[x] = "IMPORTED"]_vars

\* C29: a run of AdditiveSync removes nothing: every entry of the
\* destination is still there, the natural keys afterwards are those of
\* before together with those of the source, and with an empty source the
\* destination and its diff are unchanged.
C29_AdditiveKeepsAll ==
    [][AdditiveStep =>
          /\ wrapped \subseteq wrapped'
          /\ Ids(wrapped') = Ids(wrapped) \cup Ids(source)
          /\ source = {} =>
                UNCHANGED <<wrapped, added, removed, changed>>]_vars

\* C29 witness: after one run of AdditiveSync the destination still has an
\* imported record that the source lacks, and has a record it lacked.
C29_Witness ==
    /\ runs = 1
    /\ last_run = "additive"
    /\ added # {}
    /\ \E e \in wrapped : /\ NaturalKey(e.key) \notin Ids(source)
                          /\ status[e.key] = "IMPORTED"
                          /\ status[e.val] = "IMPORTED"

---------------------------------------------------------------------------
(* Properties of the chunkers called with a bad hint (under SpecBadHint) *)

\* C30: with a hint that is not positive, neither chunked_loader nor
\* ChunkedLoader.loader yields a chunk, and each ends its first next() with
\* ValueError, whatever the inputs.
C30_BadHintRejected ==
    /\ yielded = <<>>
    /\ batches = <<>>
    /\ gen \in {"running", "ValueError"}
    /\ cl_gen \in {"running", "ValueError"}


---------------------------------------------------------------------------
(* Properties of Importable *)

\* The number of times l was registered / was called by the last call.
Registrations(ls, l) == Cardinality({i \in 1..Len(ls) : ls[i] = l})
Invocations(nf, l) == Cardinality({i \in 1..Len(nf) : nf[i].listener = l})

\* The step fired one notification: each registration was called once, in
\* the order of registration, with the instance as the step leaves it.
OneNotification ==
    /\ Len(notified') = Len(imp_listeners)
    /\ \A i \in 1..Len(imp_listeners) :
          /\ notified'[i].listener = imp_listeners[i]
          /\ notified'[i].saw = attrs'

\* The step fired no notification.
NoNotification == notified' = <<>>

\* C21: assigning an attribute stores the value and notifies the listeners
\* exactly when the attribute is a content attribute and the value is unequal
\* to the old one, an attribute that was not set counting as unequal; an equal
\* value, or an attribute outside the content attributes, notifies nobody.
C21_SetAttrNotifies ==
    [][\A n \in AttrNames, v \in AttrValues : ImpSetAttr(n, v) =>
          /\ attrs'[n] = {v}
          /\ \A m \in AttrNames \ {n} : attrs'[m] = attrs[m]
          /\ IF n \in content_attrs /\ attrs[n] # {v}
             THEN OneNotification
             ELSE NoNotification]_vars

\* A listener was told of the assignment of a content attribute.
C21_Witness ==
    /\ imp_last = "setattr"
    /\ Len(notified) = 1
    /\ \E n \in content_attrs : notified[1].saw[n] # {} /\ attrs = notified[1].saw

\* C22: update with content attributes only stores every value given, then
\* fires one notification if some value differed from the one before and none
\* otherwise, returns True exactly when some value differed, and the listeners
\* see every attribute of the call with its new value.
C22_UpdateNotifiesOnce ==
    [][\A kw \in KwArgs : (ImpUpdate(kw) /\ DOMAIN kw \subseteq content_attrs) =>
          /\ imp_raised' = "none"
          /\ \A n \in DOMAIN kw : attrs'[n] = {kw[n]}
          /\ \A n \in AttrNames \ DOMAIN kw : attrs'[n] = attrs[n]
          /\ LET differed == \E n \in DOMAIN kw : attrs[n] # {kw[n]}
             IN  /\ returned' = Bool(differed)
                 /\ IF differed THEN OneNotification ELSE NoNotification]_vars

\* update changed two attributes and the listener was called once, seeing both.
C22_Witness ==
    /\ imp_last = "update"
    /\ returned = "True"
    /\ Len(notified) = 1
    /\ \A n \in AttrNames : notified[1].saw[n] # {}
    /\ imp_calls = 2

\* C23: sync copies the content attributes the other instance has, leaves
\* every other attribute alone, returns True and fires one notification
\* exactly when a copied value differed; a sync right after a sync returns
\* False and notifies nobody.
C23_SyncCopiesContent ==
    [][ImpSync =>
          /\ imp_raised' = "none"
          /\ \A n \in AttrNames :
                attrs'[n] = IF n \in content_attrs /\ other[n] # {}
                            THEN other[n] ELSE attrs[n]
          /\ LET differed == \E n \in content_attrs :
                                 other[n] # {} /\ attrs[n] # other[n]
             IN  /\ returned' = Bool(differed)
                 /\ IF differed THEN OneNotification ELSE NoNotification
          /\ imp_last = "sync" => (returned' = "False" /\ NoNotification)]_vars

\* sync copied a value, told the listener, and kept an attribute the other
\* instance does not have.
C23_Witness ==
    /\ imp_last = "sync"
    /\ returned = "True"
    /\ Len(notified) = 1
    /\ \E n \in content_attrs : other[n] # {} /\ attrs[n] = other[n]
    /\ \E n \in AttrNames : other[n] = {} /\ attrs[n] # {}

\* C24 as stated: a notification calls every registered listener exactly
\* once, however often it was registered.
C24_NotifiedOnce ==
    notified # <<>> =>
        \A l \in Listeners :
            Registrations(imp_listeners, l) >= 1 => Invocations(notified, l) = 1

\* C24: every register(l) with a callable adds one registration of l, and a
\* notification calls l once per registration: after k calls of register(l)
\* one notification calls l exactly k times.
C24_NotifiedPerRegistration ==
    [][/\ \A l \in Listeners : ImpRegister(l) =>
              \A k \in Listeners :
                  Registrations(imp_listeners', k)
                      = Registrations(imp_listeners, k) + (IF k = l THEN 1 ELSE 0)
       /\ notified' # <<>> =>
              \A l \in Listeners :
                  Invocations(notified', l) = Registrations(imp_listeners', l)]_vars

\* A listener registered twice was called twice by one notification.
C24_Witness ==
    \E l \in Listeners :
        /\ Registrations(imp_listeners, l) = 2
        /\ Invocations(notified, l) = 2
        /\ Len(notified) = 2

\* A call of sync or of update(**kw) on an instance.
SyncOrUpdate == ImpSync \/ \E kw \in KwArgs : ImpUpdate(kw)

\* C25 as stated: with no content attributes, sync and update change no
\* attribute, notify nobody, raise nothing and return False, whatever the
\* argument.
C25_NoOpForEveryArgument ==
    [][(content_attrs = {} /\ SyncOrUpdate) =>
          /\ attrs' = attrs
          /\ NoNotification
          /\ imp_raised' = "none"
          /\ returned' = "False"]_vars

\* C25: with no content attributes, sync, and update without arguments,
\* change no attribute, notify nobody and return False; update with any
\* argument raises ValueError, changes no attribute and notifies nobody.
C25_EmptyContentSet ==
    [][(content_attrs = {} /\ SyncOrUpdate) =>
          /\ attrs' = attrs
          /\ NoNotification
          /\ IF imp_last' = "update" /\ \E kw \in KwArgs :
                                            DOMAIN kw # {} /\ ImpUpdate(kw)
             THEN imp_raised' = "ValueError"
             ELSE imp_raised' = "none" /\ returned' = "False"]_vars

\* update with an argument was refused on an instance without content
\* attributes that has an attribute and a listener.
C25_Witness ==
    /\ content_attrs = {}
    /\ imp_last = "update"
    /\ imp_raised = "ValueError"
    /\ imp_listeners # <<>>
    /\ \E n \in AttrNames : attrs[n] # {}

---------------------------------------------------------------------------
(* Termination of chunked_loader (under SpecChunkLive) *)

\* C31: for finite inputs and a hint > 0 the generator ends, having yielded
\* no more pairs than the inputs have elements, and no pair it yields has
\* both lists empty: not with an empty input, not with two, and not when the
\* number of elements is a multiple of the hint.
C31_TerminatesNoEmptyPair ==
    /\ [](\A i \in 1..Len(yielded) : PairSize(yielded[i]) > 0)
    /\ [](Len(yielded) <= Len(ordered_iter1) + Len(ordered_iter2))
    /\ <>(gen = "done")

\* The generator ended after two pairs over one empty input and one whose
\* length is twice the hint.
C31_Witness ==
    /\ gen = "done"
    /\ ordered_iter2 = <<>>
    /\ Len(ordered_iter1) = 2 * chunk_hint
    /\ Len(yielded) = 2

---------------------------------------------------------------------------
(* Properties of the natural key (under SpecKey) *)

\* Neither instance orders before the other.
Unordered(x, y) == ~ImpLt(x, y) /\ ~ImpLt(y, x)

\* C35: two instances are equal, have equal hashes and are not ordered
\* exactly when their natural keys are equal, whatever their attributes:
\* equality and order each decide it alone, equal keys give equal hashes
\* (two different keys may hash alike), and no assignment, update, sync,
\* register or notification changes a natural key.
C35_IdentityByNaturalKey ==
    /\ [](/\ ImpEq(Self, Other) <=> natural_key = other_key
          /\ Unordered(Self, Other) <=> natural_key = other_key
          /\ natural_key = other_key => ImpHash(Self) = ImpHash(Other)
          /\ (/\ ImpEq(Self, Other)
              /\ ImpHash(Self) = ImpHash(Other)
              /\ Unordered(Self, Other)) <=> natural_key = other_key)
    /\ [][natural_key' = natural_key /\ other_key' = other_key]_vars

\* Two instances with one natural key and different attributes after the
\* attributes of the first were changed and its listener was told.
C35_Witness ==
    /\ natural_key = other_key
    /\ attrs # other
    /\ \E n \in content_attrs : attrs[n] # {}
    /\ notified # <<>>

---------------------------------------------------------------------------
(* Properties of RecordingImportable (under SpecRec) *)

\* The content attributes an instance has, with their values.
ContentOf(ca, at) == [n \in AttrNames |-> IF n \in ca THEN at[n] ELSE {}]

\* C36: orig holds the content the instance was made with; assignments,
\* deletions, update and sync leave orig as it is; reset makes orig the
\* current content, without the content attributes the instance does not
\* have, and leaves the instance alone.
C36_OrigIsContentAtReset ==
    /\ original = ContentOf(content_attrs, attrs)
    /\ [][IF imp_last' = "reset"
          THEN original' = ContentOf(content_attrs, attrs) /\ attrs' = attrs
          ELSE original' = original]_vars

\* After a reset that dropped an attribute from orig, the instance got the
\* attribute again and orig still lacks it.
C36_Witness ==
    /\ imp_calls >= 3
    /\ imp_last \in {"setattr", "update", "sync"}
    /\ \E n \in content_attrs : original[n] = {} /\ attrs[n] # {}
    /\ \E n \in content_attrs : original[n] # {} /\ attrs[n] # original[n]

---------------------------------------------------------------------------
(* Error handling of Importable (under SpecImp) *)

\* C34: register with an argument that is not callable raises ValueError
\* and keeps nothing: the listeners and the attributes are as before, nobody
\* is notified, and a notification after it calls exactly the listeners
\* registered before it, never the rejected argument.
C34_RegisterRejectsNonCallable ==
    [][/\ ImpRegister(NotCallable) =>
              /\ imp_raised' = "ValueError"
              /\ imp_listeners' = imp_listeners
              /\ attrs' = attrs
              /\ NoNotification
       /\ \A i \in 1..Len(notified') : notified'[i].listener \in Listeners
       /\ (imp_last = "register" /\ imp_raised = "ValueError"
              /\ notified' # <<>>) => OneNotification]_vars

\* A registration was refused on an instance that has a listener.
C34_Witness ==
    /\ imp_last = "register"
    /\ imp_raised = "ValueError"
    /\ imp_listeners # <<>>
    /\ \E n \in content_attrs : attrs[n] # {}

\* C40: update with a name that is not a content attribute raises
\* ValueError, stores none of the values given, not those of the content
\* attributes either, and notifies nobody.
C40_UpdateRejectsUnknownField ==
    [][\A kw \in KwArgs :
          (ImpUpdate(kw) /\ ~(DOMAIN kw \subseteq content_attrs)) =>
              /\ imp_raised' = "ValueError"
              /\ attrs' = attrs
              /\ imp_listeners' = imp_listeners
              /\ NoNotification]_vars

\* update was refused on an instance with a content attribute, another
\* attribute that is not content, and a listener.
C40_Witness ==
    /\ imp_last = "update"
    /\ imp_raised = "ValueError"
    /\ content_attrs = {"a"}
    /\ attrs["a"] # {}
    /\ imp_listeners # <<>>

---------------------------------------------------------------------------
(* The source of a run (under SpecSync) *)

\* C38: a run of either strategy leaves the source as it was: the same
\* entries, and every instance of the source with the content and the
\* status it had before the run.
C38_SourceReadOnly ==
    [][AnyRunStep =>
          /\ source' = source
          /\ \A x \in InstancesIn(source) :
                /\ content'[x] = content[x]
                /\ status'[x] = status[x]]_vars

---------------------------------------------------------------------------
(* Properties of chunked_mem_sync (under SpecCms) *)

RECURSIVE SizeOfPairs(_)
\* The number of elements in a sequence of pairs.
SizeOfPairs(pairs) ==
    IF pairs = <<>> THEN 0 ELSE PairSize(pairs[1]) + SizeOfPairs(Tail(pairs))

\* C37 as stated: nothing that belongs to a later pair is read from the
\* merge before the pair at hand is reconciled and yielded: what was read
\* is exactly what the pairs made so far hold.
C37_NothingReadAhead ==
    cms_pc \in {"sync", "yield"} => consumed = SizeOfPairs(yielded)

\* C37: the loader makes a pair only when asked, and it is asked for the
\* next one only after the dataset of the last one was reconciled and
\* yielded; of the elements of later pairs at most one has been read from
\* the merge before that, the first of the next pair, which the run
\* extension read and chained back.
C37_OnlyLookaheadReadEarly ==
    /\ [](/\ consumed = SizeOfPairs(yielded) + Len(lookahead)
          /\ Len(lookahead) <= 1
          /\ lookahead # <<>> => (iterator # <<>> /\ lookahead[1] = iterator[1])
          /\ Len(results) = IF cms_pc = "sync" THEN Len(yielded) - 1
                            ELSE Len(yielded))
    /\ [][yielded' # yielded =>
              /\ cms_pc = "next"
              /\ Len(results) = Len(yielded)
              /\ PairValues(Last(yielded')) \cap
                     {lookahead[i][1] : i \in 1..Len(lookahead)}
                  = {lookahead[i][1] : i \in 1..Len(lookahead)}]_vars

\* The first pair is not reconciled yet and the first element of the
\* second pair has been read from the merge.
C37_Witness ==
    /\ cms_pc = "sync"
    /\ Len(yielded) = 1
    /\ lookahead # <<>>
    /\ consumed = PairSize(yielded[1]) + 1

\* The datasets of all pairs taken together.
UnionOf(ds, field) == UNION {ds[i][field] : i \in 1..Len(ds)}

\* One full reconciliation of the whole source with the whole destination.
Whole ==
    FullSyncOf(AsSource(ordered_iter1), NewDDS(AsDestination(ordered_iter2)),
               cms_status0)

---------------------------------------------------------------------------
(* Properties of DjangoLoader.load_buffered (under SpecDj) *)

\* The lexicographic order of the composite natural keys.
RowLess(r, q) == r[1] < q[1] \/ (r[1] = q[1] /\ r[2] < q[2])

\* C32: with a positive buffer size the generator raises nothing, and when
\* it has ended it has yielded the rows of the table, each once, in
\* ascending order of the natural key.
C32_BufferedYieldsAll ==
    (buffer_size > 0 /\ dj_state # "created") =>
        /\ dj_state \in {"running", "done"}
        /\ dj_state = "done" =>
              /\ {dj_yielded[i] : i \in 1..Len(dj_yielded)} = table
              /\ \A i \in 1..(Len(dj_yielded) - 1) :
                    RowLess(dj_yielded[i], dj_yielded[i + 1])

\* C33: with a buffer size of zero or less the first next() ends with
\* ValueError; no queryset was built and no row was yielded.
C33_BadBufferSizeRejected ==
    (buffer_size <= 0 /\ dj_state # "created") =>
        /\ dj_state = "ValueError"
        /\ dj_queries = 0
        /\ dj_yielded = <<>>

\* The first row was asked for with a buffer size of zero on a table that
\* has rows.
C33_Witness ==
    /\ buffer_size = 0
    /\ dj_state = "ValueError"
    /\ table # {}

=============================================================================
